---- MODULE Spec2Model ----
(***************************************************************************)
(* State-machine model of the dashboard client of pi-control-program:      *)
(* the App component (frontend/src/App.tsx) with its poll loop, snapshot   *)
(* diffing, runtime and lift tickers and command handlers, and the HTTP    *)
(* helper (frontend/src/api.ts).                                           *)
(*                                                                         *)
(* Conventions.                                                            *)
(*  - An optional value (undefined / null / non-finite) is the empty       *)
(*    sequence None; a present value v is the one-element sequence <<v>>.  *)
(*  - Sensor readings are fixed-point integers, value * Scale.             *)
(*  - One action is one event-loop callback together with the render and   *)
(*    the effects that its state updates cause.                            *)
(***************************************************************************)
EXTENDS Integers, Sequences, FiniteSets, TLC

\* ------------------------------------------------------------------ bounds
MaxPolls == 4
MaxCmds == 1
MaxRuntimeSec == 1

\* ------------------------------------------------------- program constants
Scale == 10 * 10
HISTORY_MAX == 4000
EVENT_MAX == 80
LIFT_SPEED_MM_S == 10
LIFT_MAX_MM_DEFAULT == 1000
STEP_MS == 100

\* ----------------------------------------------------------------- options
None == <<>>
Some(v) == <<v>>
IsSome(o) == o # <<>>
Val(o) == o[1]

MinOf(a, b) == IF a < b THEN a ELSE b
MaxOf(a, b) == IF a > b THEN a ELSE b

\* --------------------------------------------------------------- snapshots
TankKeys == {"soak", "fresh", "heat"}
RelayIdx == {0, 1, 2}
ValveKeys == {"fresh", "heat"}

Reading(t, p, l) == [temp |-> t, ph |-> p, level |-> l]

DEFAULT_TANK_READINGS ==
  [k \in TankKeys |->
     CASE k = "soak"  -> Some(Reading(Some(3250), Some(680), Some(7200)))
       [] k = "fresh" -> Some(Reading(Some(2200), Some(720), Some(5800)))
       [] k = "heat"  -> Some(Reading(Some(4500), Some(650), Some(4600)))]

AllOff == << [index |-> 0, on |-> FALSE], [index |-> 1, on |-> FALSE],
             [index |-> 2, on |-> FALSE] >>

DEFAULT_STATUS ==
  [relays |-> AllOff,
   auto   |-> Some([fresh |-> FALSE, heat |-> FALSE, configured |-> FALSE]),
   lift   |-> Some([state |-> "stop", estimated_mm |-> None, max_mm |-> None]),
   heater |-> Some([on |-> FALSE, configured |-> FALSE]),
   tank   |-> DEFAULT_TANK_READINGS]

\* The responses the backend is taken to give to GET /api/status.
\* SnapIdle: everything off, no heater block, a lift estimate without max_mm.
SnapIdle ==
  [relays |-> AllOff,
   auto   |-> Some([fresh |-> FALSE, heat |-> FALSE, configured |-> TRUE]),
   lift   |-> Some([state |-> "stop", estimated_mm |-> Some(5), max_mm |-> None]),
   heater |-> None,
   tank   |-> DEFAULT_TANK_READINGS]

\* SnapRun: relays 2 and 0 on (no entry for relay 1), fresh valve and heater
\* on, lift going up with max_mm 3.
SnapRun ==
  [relays |-> << [index |-> 2, on |-> TRUE], [index |-> 0, on |-> TRUE] >>,
   auto   |-> Some([fresh |-> TRUE, heat |-> FALSE, configured |-> TRUE]),
   lift   |-> Some([state |-> "up", estimated_mm |-> Some(2), max_mm |-> Some(3)]),
   heater |-> Some([on |-> TRUE, configured |-> TRUE]),
   tank   |-> [DEFAULT_TANK_READINGS EXCEPT
                 !["soak"] = Some(Reading(Some(6000), Some(700), Some(50)))]]

Snapshots == {SnapIdle, SnapRun}

\* err.message of a rejected status request
PollErrors == {"HTTP 500"}

NoError == "null"
ErrOffline == "backend offline"
ErrCommand == "command failed"

\* ------------------------------------------------------ snapshot accessors
\* status?.relays?.find((relay) => relay.index === index)?.on ?? false
getRelayOn(st, index) ==
  IF ~IsSome(st) THEN FALSE
  ELSE LET rs == Val(st).relays
           hits == {k \in DOMAIN rs : rs[k].index = index}
       IN IF hits = {} THEN FALSE
          ELSE rs[CHOOSE k \in hits : \A j \in hits : k <= j].on

\* st?.auto?.[which] ?? false
getValveOn(st, which) ==
  IF ~IsSome(st) THEN FALSE
  ELSE IF ~IsSome(Val(st).auto) THEN FALSE
  ELSE IF which = "fresh" THEN Val(Val(st).auto).fresh ELSE Val(Val(st).auto).heat

\* st?.lift?.state ?? "stop"
getLiftState(st) ==
  IF ~IsSome(st) THEN "stop"
  ELSE IF ~IsSome(Val(st).lift) THEN "stop"
  ELSE Val(Val(st).lift).state

\* st?.heater?.on ?? false
getHeaterOn(st) ==
  IF ~IsSome(st) THEN FALSE
  ELSE IF ~IsSome(Val(st).heater) THEN FALSE
  ELSE Val(Val(st).heater).on

\* data.lift?.max_mm, data.lift?.estimated_mm
backendLiftMax(data) == IF IsSome(data.lift) THEN Val(data.lift).max_mm ELSE None
backendLiftMm(data) == IF IsSome(data.lift) THEN Val(data.lift).estimated_mm ELSE None

\* ------------------------------------------------------------ history ring
numericOrNull(value) == value

levelOrNull(value) ==
  IF ~IsSome(value) THEN None
  ELSE LET numeric == Val(value)
       IN Some(IF numeric > 1 * Scale THEN numeric ELSE numeric * 100)

buildHistorySample(data) ==
  [k \in TankKeys |->
     LET r == data.tank[k]
     IN [temp  |-> numericOrNull(IF IsSome(r) THEN Val(r).temp ELSE None),
         ph    |-> numericOrNull(IF IsSome(r) THEN Val(r).ph ELSE None),
         level |-> levelOrNull(IF IsSome(r) THEN Val(r).level ELSE None)]]

\* Variant of pushHistory that keeps the oldest samples: slice(0, HISTORY_MAX).
pushHistory_KeepsOldest(prev, sample) ==
  LET all == Append(prev, sample)
  IN SubSeq(all, 1, MinOf(Len(all), HISTORY_MAX))

\* HistoryTrendPanel: the level the chart plots for a stored sample value.
normalizeLevel(value) ==
  IF ~IsSome(value) THEN None
  ELSE LET num == Val(value)
       IN Some(IF num > 1 * Scale THEN num ELSE num * 100)

readMetric(sample, tank, metric) ==
  IF metric = "level" THEN normalizeLevel(sample[tank][metric])
  ELSE sample[tank][metric]

\* [...prev, sample].slice(-HISTORY_MAX)
pushHistory(prev, sample) ==
  LET all == Append(prev, sample)
  IN IF Len(all) > HISTORY_MAX
       THEN SubSeq(all, Len(all) - HISTORY_MAX + 1, Len(all))
       ELSE all

\* -------------------------------------------------------------- event ring
\* [event, ...prev].slice(0, EVENT_MAX)
\* Variant of appendEvent that keeps the list oldest first:
\* [...prev, event].slice(-EVENT_MAX).
appendEvent_AtTail(prev, event) ==
  LET all == prev \o <<event>>
  IN SubSeq(all, MaxOf(1, Len(all) - EVENT_MAX + 1), Len(all))

\* setEvents((prev) => [event, ...prev].slice(0, EVENT_MAX))
appendEvent(prev, event) ==
  LET all == <<event>> \o prev
  IN SubSeq(all, 1, MinOf(Len(all), EVENT_MAX))

RECURSIVE appendEvents(_, _)
appendEvents(prev, evs) ==
  IF evs = <<>> THEN prev
  ELSE appendEvents(appendEvent(prev, Head(evs)), Tail(evs))

Event(level, src, val) == [level |-> level, src |-> src, val |-> val]

RelaySrc(i) == CASE i = 0 -> "pump1" [] i = 1 -> "pump2" [] i = 2 -> "pump3"
ValveSrc(k) == IF k = "fresh" THEN "valve1" ELSE "valve2"
OnOff(b) == IF b THEN "on" ELSE "off"

\* ------------------------------------------------------------ event deriver
\* Variant of relayEvents whose loop stops one index short (i < 2).
relayEvents_TwoRelays(prev, data) ==
  LET ev(i) == IF getRelayOn(prev, i) # getRelayOn(Some(data), i)
                 THEN << Event("info", RelaySrc(i), OnOff(getRelayOn(Some(data), i))) >>
                 ELSE <<>>
  IN ev(0) \o ev(1)

\* The events refreshStatus emits for prev -> data, in emission order.
relayEvents(prev, data) ==
  LET ev(i) == IF getRelayOn(prev, i) # getRelayOn(Some(data), i)
                 THEN << Event("info", RelaySrc(i), OnOff(getRelayOn(Some(data), i))) >>
                 ELSE <<>>
  IN ev(0) \o ev(1) \o ev(2)

valveEvents(prev, data) ==
  LET ev(k) == IF getValveOn(prev, k) # getValveOn(Some(data), k)
                 THEN << Event("info", ValveSrc(k), OnOff(getValveOn(Some(data), k))) >>
                 ELSE <<>>
  IN ev("fresh") \o ev("heat")

liftEvents(prev, data) ==
  IF getLiftState(prev) # getLiftState(Some(data))
    THEN << Event("warn", "lift", getLiftState(Some(data))) >>
    ELSE <<>>

heaterEvents(prev, data) ==
  IF getHeaterOn(prev) # getHeaterOn(Some(data))
    THEN << Event("info", "heater", OnOff(getHeaterOn(Some(data)))) >>
    ELSE <<>>

\* Variant of diffEvents that diffs the first snapshot against DEFAULT_STATUS.
diffEvents_NullAsDefault(prev, data) ==
  LET base == IF IsSome(prev) THEN prev ELSE Some(DEFAULT_STATUS)
  IN relayEvents(base, data) \o valveEvents(base, data)
       \o liftEvents(base, data) \o heaterEvents(base, data)

diffEvents(prev, data) ==
  IF ~IsSome(prev) THEN <<>>
  ELSE relayEvents(prev, data) \o valveEvents(prev, data)
         \o liftEvents(prev, data) \o heaterEvents(prev, data)

\* Variant of diffRuntime that counts a relay flip in either direction as a start.
diffRuntime_CountsBothFlips(rt, prev, data) ==
  IF ~IsSome(prev) THEN rt
  ELSE [rt EXCEPT
          !.pumpStarts = [i \in RelayIdx |->
             IF getRelayOn(prev, i) # getRelayOn(Some(data), i)
               THEN rt.pumpStarts[i] + 1 ELSE rt.pumpStarts[i]],
          !.valveSwitches = [k \in ValveKeys |->
             IF getValveOn(prev, k) # getValveOn(Some(data), k)
               THEN rt.valveSwitches[k] + 1 ELSE rt.valveSwitches[k]]]

\* The pumpStarts / valveSwitches updates refreshStatus queues for prev -> data.
diffRuntime(rt, prev, data) ==
  IF ~IsSome(prev) THEN rt
  ELSE [rt EXCEPT
          !.pumpStarts = [i \in RelayIdx |->
             IF getRelayOn(prev, i) # getRelayOn(Some(data), i) /\ getRelayOn(Some(data), i)
               THEN rt.pumpStarts[i] + 1 ELSE rt.pumpStarts[i]],
          !.valveSwitches = [k \in ValveKeys |->
             IF getValveOn(prev, k) # getValveOn(Some(data), k)
               THEN rt.valveSwitches[k] + 1 ELSE rt.valveSwitches[k]]]

\* -------------------------------------------------------------------- state
VARIABLES
  status,            \* useState: last snapshot, None before the first one
  error,             \* useState: banner error, NoError when null
  busy,              \* useState: per-action-key in-flight flags
  history,           \* useState: history ring
  requestOk,         \* useState
  requestFail,       \* useState
  latestError,       \* useState
  events,            \* useState: event ring, newest first
  liftEstimatedMm,   \* useState
  liftMaxMm,         \* useState
  runtime,           \* useState: pumpRuntimeSec, pumpStarts, valveSwitches
  prevStatusRef,     \* useRef: diff baseline
  prevOnlineRef,     \* useRef: online flag seen by the transition effect
  mounted,           \* the component is mounted
  active,            \* poll effect: flag of the current loop instance
  timer,             \* poll effect: the current loop's timeout is pending
  staleTimers,       \* timeouts pending that deactivated loop instances set
  reqs,              \* status requests in flight
  cmds,              \* command POSTs in flight
  nIssued,           \* status requests issued so far
  nCmds,             \* commands issued so far
  pollLog            \* history variable: the status polls completed while
                     \* mounted, oldest first, each with its outcome

vars == << status, error, busy, history, requestOk, requestFail, latestError,
           events, liftEstimatedMm, liftMaxMm, runtime, prevStatusRef,
           prevOnlineRef, mounted, active, timer, staleTimers, reqs, cmds,
           nIssued, nCmds, pollLog >>

clientState == << status, error, busy, history, requestOk, requestFail,
                  latestError, events, liftEstimatedMm, liftMaxMm, runtime >>

BusyKeys == {"relay-0", "relay-1", "relay-2", "auto-fresh", "auto-heat", "heater"}
CmdKeys == {"relay-0", "heater", "lift"}

\* const isOnline = Boolean(status) && !error
Online(st, err) == IsSome(st) /\ err = NoError
isOnline == Online(status, error)
\* Variant of effectiveStatus that keeps the last-known snapshot while offline.
effectiveStatus_LastKnown == IF IsSome(status) THEN status ELSE Some(DEFAULT_STATUS)

\* const effectiveStatus = isOnline ? status : DEFAULT_STATUS
effectiveStatus == IF isOnline THEN status ELSE Some(DEFAULT_STATUS)
liftState == getLiftState(effectiveStatus)

Req(id, origin, capMax) == [id |-> id, origin |-> origin, capMax |-> capMax]
LoopReqs == {r \in reqs : r.origin \in {"loop", "stale"}}

Init ==
  /\ status = None
  /\ error = NoError
  /\ busy = [k \in BusyKeys |-> FALSE]
  /\ history = <<>>
  /\ requestOk = 0
  /\ requestFail = 0
  /\ latestError = ""
  /\ events = <<>>
  /\ liftEstimatedMm = 0
  /\ liftMaxMm = LIFT_MAX_MM_DEFAULT
  /\ runtime = [pumpRuntimeSec |-> [i \in RelayIdx |-> 0],
                pumpStarts     |-> [i \in RelayIdx |-> 0],
                valveSwitches  |-> [k \in ValveKeys |-> 0]]
  /\ prevStatusRef = None
  /\ prevOnlineRef = FALSE
  /\ mounted = TRUE
  /\ active = TRUE
  /\ timer = FALSE
  /\ staleTimers = 0
  /\ reqs = {Req(1, "loop", LIFT_MAX_MM_DEFAULT)}
  /\ cmds = {}
  /\ nIssued = 1
  /\ nCmds = 0
  /\ pollLog = <<>>

\* ----------------------------------------------------------------- effects
\* Variant of onlineEffect without the prevOnlineRef guard.
onlineEffect_NoGuard(evs, onl) ==
  appendEvent(evs, Event(IF onl THEN "info" ELSE "critical", "comm",
                         IF onl THEN "online" ELSE "offline"))

\* useEffect([appendEvent, isOnline]): the online-transition event.
onlineEffect(evs, onl) ==
  IF prevOnlineRef = onl THEN evs
  ELSE appendEvent(evs, Event(IF onl THEN "info" ELSE "critical", "comm",
                              IF onl THEN "online" ELSE "offline"))

\* Variant of setBusyFlag that replaces the record: setBusy({ [key]: value }).
setBusyFlag_Replaces(b, key, value) ==
  IF key \in BusyKeys THEN [k \in BusyKeys |-> IF k = key THEN value ELSE FALSE] ELSE b

\* setBusyFlag(key, value); handleLift sets no flag.
setBusyFlag(b, key, value) ==
  IF key \in BusyKeys THEN [b EXCEPT ![key] = value] ELSE b

\* Variant of LoopAfter in which the loop sets no timeout after its request.
LoopAfter_NoReschedule(r, restart, newMax) ==
  LET rest == reqs \ {r}
      demoted == {IF q.origin = "loop" THEN [q EXCEPT !.origin = "stale"] ELSE q : q \in rest}
  IN IF restart
       THEN /\ timer' = FALSE
            /\ staleTimers' = staleTimers
            /\ reqs' = demoted \cup {Req(nIssued + 1, "loop", newMax)}
            /\ nIssued' = nIssued + 1
       ELSE /\ timer' = timer
            /\ staleTimers' = staleTimers
            /\ reqs' = rest
            /\ nIssued' = nIssued

\* Requests left in flight once r has completed, and the timeout its caller
\* sets: a loop instance always sets one (loop, line 329), a command handler none.
LoopAfter(r, restart, newMax) ==
  LET rest == reqs \ {r}
      demoted == {IF q.origin = "loop" THEN [q EXCEPT !.origin = "stale"] ELSE q : q \in rest}
  IN IF restart
       \* cleanup: active = false, clearTimeout(timer); effect body: loop()
       THEN /\ timer' = FALSE
            /\ staleTimers' = staleTimers + (IF r.origin = "stale" THEN 1 ELSE 0)
            /\ reqs' = demoted \cup {Req(nIssued + 1, "loop", newMax)}
            /\ nIssued' = nIssued + 1
       ELSE /\ timer' = (timer \/ r.origin = "loop")
            /\ staleTimers' = staleTimers + (IF r.origin = "stale" THEN 1 ELSE 0)
            /\ reqs' = rest
            /\ nIssued' = nIssued

\* Room for one more status request besides those the commands in flight will force.
CanIssue == nIssued + Cardinality(cmds) < MaxPolls

\* ------------------------------------------------------------ refreshStatus
\* fetchStatus resolved with data: the try branch of refreshStatus, then the
\* continuation of its caller, then render and effects.
StatusOk(r, data) ==
  LET bMax == backendLiftMax(data)
      maxValid == IsSome(bMax) /\ Val(bMax) > 0
      newMax == IF maxValid THEN Val(bMax) ELSE liftMaxMm
      bMm == backendLiftMm(data)
      targetMax == IF maxValid THEN Val(bMax) ELSE r.capMax
      newEst == IF IsSome(bMm) THEN MaxOf(0, MinOf(targetMax, Val(bMm)))
                               ELSE liftEstimatedMm
      restart == newMax # liftMaxMm
  IN
  /\ r \in reqs
  /\ IF mounted
       THEN /\ restart => CanIssue
            /\ status' = Some(data)
            /\ error' = NoError
            /\ requestOk' = requestOk + 1
            /\ requestFail' = requestFail
            /\ latestError' = ""
            /\ liftMaxMm' = newMax
            /\ liftEstimatedMm' = newEst
            /\ history' = pushHistory(history, buildHistorySample(data))
            /\ runtime' = diffRuntime(runtime, prevStatusRef, data)
            /\ events' = onlineEffect(appendEvents(events, diffEvents(prevStatusRef, data)), TRUE)
            /\ prevOnlineRef' = TRUE
            /\ prevStatusRef' = Some(data)
            /\ busy' = setBusyFlag(busy, r.origin, FALSE)
            /\ LoopAfter(r, restart, newMax)
            /\ pollLog' = Append(pollLog, [ok |-> TRUE, data |-> Some(data), msg |-> ""])
       ELSE /\ prevStatusRef' = Some(data)
            /\ LoopAfter(r, FALSE, liftMaxMm)
            /\ UNCHANGED << clientState, prevOnlineRef, pollLog >>
  /\ UNCHANGED << mounted, active, cmds, nCmds >>

\* Variant of StatusFail that drops the last-known snapshot on a failure.
StatusFail_ClearsSnapshot(r, message) ==
  /\ r \in reqs
  /\ IF mounted
       THEN /\ error' = ErrOffline
            /\ requestFail' = requestFail + 1
            /\ latestError' = message
            /\ busy' = setBusyFlag(busy, r.origin, FALSE)
            /\ events' = onlineEffect(events, FALSE)
            /\ prevOnlineRef' = FALSE
            /\ pollLog' = Append(pollLog, [ok |-> FALSE, data |-> None, msg |-> message])
            /\ status' = None
            /\ UNCHANGED << history, requestOk, liftEstimatedMm, liftMaxMm, runtime >>
       ELSE UNCHANGED << clientState, prevOnlineRef, pollLog >>
  /\ LoopAfter(r, FALSE, liftMaxMm)
  /\ UNCHANGED << prevStatusRef, mounted, active, cmds, nCmds >>

\* fetchStatus rejected with message: the catch branch of refreshStatus, then
\* the continuation of its caller, then render and effects.
StatusFail(r, message) ==
  /\ r \in reqs
  /\ IF mounted
       THEN /\ error' = ErrOffline
            /\ requestFail' = requestFail + 1
            /\ latestError' = message
            /\ busy' = setBusyFlag(busy, r.origin, FALSE)
            /\ events' = onlineEffect(events, FALSE)
            /\ prevOnlineRef' = FALSE
            /\ pollLog' = Append(pollLog, [ok |-> FALSE, data |-> None, msg |-> message])
            /\ UNCHANGED << status, history, requestOk, liftEstimatedMm, liftMaxMm, runtime >>
       ELSE UNCHANGED << clientState, prevOnlineRef, pollLog >>
  /\ LoopAfter(r, FALSE, liftMaxMm)
  /\ UNCHANGED << prevStatusRef, mounted, active, cmds, nCmds >>

\* ---------------------------------------------------------------- poll loop
\* The current loop's timeout fires: loop() issues the next status request.
LoopTimerFire ==
  /\ timer
  /\ active
  /\ CanIssue
  /\ timer' = FALSE
  /\ reqs' = reqs \cup {Req(nIssued + 1, "loop", liftMaxMm)}
  /\ nIssued' = nIssued + 1
  /\ UNCHANGED << clientState, prevStatusRef, prevOnlineRef, mounted, active,
                  staleTimers, cmds, nCmds, pollLog >>

\* Variant of StaleTimerFire whose loop() does not look at active.
StaleTimerFire_Polls ==
  /\ staleTimers > 0
  /\ CanIssue
  /\ staleTimers' = staleTimers - 1
  /\ reqs' = reqs \cup {Req(nIssued + 1, "stale", liftMaxMm)}
  /\ nIssued' = nIssued + 1
  /\ UNCHANGED << clientState, prevStatusRef, prevOnlineRef, mounted, active,
                  timer, cmds, nCmds, pollLog >>

\* The timeout of a deactivated loop instance fires: if (!active) return.
StaleTimerFire ==
  /\ staleTimers > 0
  /\ staleTimers' = staleTimers - 1
  /\ UNCHANGED << clientState, prevStatusRef, prevOnlineRef, mounted, active,
                  timer, reqs, cmds, nIssued, nCmds,
                  pollLog >>

\* Component unmount: the cleanups of the poll effect and of both tickers.
Unmount ==
  /\ mounted
  /\ mounted' = FALSE
  /\ active' = FALSE
  /\ timer' = FALSE
  /\ reqs' = {IF q.origin = "loop" THEN [q EXCEPT !.origin = "stale"] ELSE q : q \in reqs}
  /\ UNCHANGED << clientState, prevStatusRef, prevOnlineRef, staleTimers, cmds,
                  nIssued, nCmds, pollLog >>

\* ------------------------------------------------------------------ tickers
\* Room for one more second on every runtime counter.
CanTick == \A i \in RelayIdx : runtime.pumpRuntimeSec[i] < MaxRuntimeSec

flows == [i \in RelayIdx |-> getRelayOn(effectiveStatus, i)]

\* Variant of RuntimeTick that reads the last snapshot also while offline.
RuntimeTick_IgnoresOnline ==
  /\ mounted
  /\ CanTick
  /\ runtime' = [runtime EXCEPT !.pumpRuntimeSec =
                   [i \in RelayIdx |-> runtime.pumpRuntimeSec[i]
                                         + (IF getRelayOn(status, i) THEN 1 ELSE 0)]]
  /\ UNCHANGED << status, error, busy, history, requestOk, requestFail,
                  latestError, events, liftEstimatedMm, liftMaxMm,
                  prevStatusRef, prevOnlineRef, mounted, active, timer,
                  staleTimers, reqs, cmds, nIssued, nCmds, pollLog >>

RuntimeTick ==
  /\ mounted
  /\ CanTick
  /\ runtime' = IF ~isOnline THEN runtime
                ELSE [runtime EXCEPT !.pumpRuntimeSec =
                        [i \in RelayIdx |-> runtime.pumpRuntimeSec[i]
                                              + (IF flows[i] THEN 1 ELSE 0)]]
  /\ UNCHANGED << status, error, busy, history, requestOk, requestFail,
                  latestError, events, liftEstimatedMm, liftMaxMm,
                  prevStatusRef, prevOnlineRef, mounted, active, timer,
                  staleTimers, reqs, cmds, nIssued, nCmds, pollLog >>

\* Variant of LiftTick that takes the speed per second as the step per tick.
LiftTick_SpeedAsStep ==
  LET delta == LIFT_SPEED_MM_S
  IN
  /\ mounted
  /\ liftEstimatedMm' =
       IF liftState = "up" THEN MinOf(liftMaxMm, liftEstimatedMm + delta)
       ELSE IF liftState = "down" THEN MaxOf(0, liftEstimatedMm - delta)
       ELSE liftEstimatedMm
  /\ UNCHANGED << status, error, busy, history, requestOk, requestFail,
                  latestError, events, liftMaxMm, runtime,
                  prevStatusRef, prevOnlineRef, mounted, active, timer,
                  staleTimers, reqs, cmds, nIssued, nCmds, pollLog >>

\* The callback of the 100 ms interval of the lift ticker.
LiftTick ==
  LET delta == (LIFT_SPEED_MM_S * STEP_MS) \div 1000
  IN
  /\ mounted
  /\ liftEstimatedMm' =
       IF liftState = "up" THEN MinOf(liftMaxMm, liftEstimatedMm + delta)
       ELSE IF liftState = "down" THEN MaxOf(0, liftEstimatedMm - delta)
       ELSE liftEstimatedMm
  /\ UNCHANGED << status, error, busy, history, requestOk, requestFail,
                  latestError, events, liftMaxMm, runtime,
                  prevStatusRef, prevOnlineRef, mounted, active, timer,
                  staleTimers, reqs, cmds, nIssued, nCmds, pollLog >>

\* liftMaxMm > 0 ? Math.round((liftEstimatedMm / liftMaxMm) * 100) : 0
liftEstimatedPercent ==
  IF liftMaxMm > 0
    THEN (2 * 100 * liftEstimatedMm + liftMaxMm) \div (2 * liftMaxMm)
    ELSE 0

\* ----------------------------------------------------------- alarm evaluator
AlarmItem(level, rule, tank) == [level |-> level, rule |-> rule, tank |-> tank]

\* effectiveStatus?.tank?.[key]
tankReading(key) == Val(effectiveStatus).tank[key]

valveFresh == getValveOn(effectiveStatus, "fresh")
valveHeat == getValveOn(effectiveStatus, "heat")

\* Variant of inspectTank whose threshold comparisons include the boundary.
inspectTank_Inclusive(name, reading) ==
  LET temp == IF IsSome(reading) THEN Val(reading).temp ELSE None
      ph == IF IsSome(reading) THEN Val(reading).ph ELSE None
      level == IF IsSome(reading) THEN Val(reading).level ELSE None
      levelPct == IF IsSome(level)
                    THEN Some(IF Val(level) > 1 * Scale THEN Val(level) ELSE Val(level) * 100)
                    ELSE None
  IN (IF IsSome(temp) /\ Val(temp) >= 55 * Scale
        THEN << AlarmItem("critical", "tempHigh", name) >> ELSE <<>>)
     \o (IF IsSome(temp) /\ Val(temp) <= 5 * Scale
           THEN << AlarmItem("warn", "tempLow", name) >> ELSE <<>>)
     \o (IF IsSome(ph) /\ Val(ph) >= 850
           THEN << AlarmItem("warn", "phHigh", name) >> ELSE <<>>)
     \o (IF IsSome(ph) /\ Val(ph) <= 6 * Scale
           THEN << AlarmItem("warn", "phLow", name) >> ELSE <<>>)
     \o (IF IsSome(levelPct) /\ Val(levelPct) <= 15 * Scale
           THEN << AlarmItem("critical", "levelLow", name) >> ELSE <<>>)

\* Variant of inspectTank with a further entry for a level below 30 %.
inspectTank_LevelWarn(name, reading) ==
  LET temp == IF IsSome(reading) THEN Val(reading).temp ELSE None
      ph == IF IsSome(reading) THEN Val(reading).ph ELSE None
      level == IF IsSome(reading) THEN Val(reading).level ELSE None
      levelPct == IF IsSome(level)
                    THEN Some(IF Val(level) > 1 * Scale THEN Val(level) ELSE Val(level) * 100)
                    ELSE None
  IN (IF IsSome(temp) /\ Val(temp) > 55 * Scale
        THEN << AlarmItem("critical", "tempHigh", name) >> ELSE <<>>)
     \o (IF IsSome(temp) /\ Val(temp) < 5 * Scale
           THEN << AlarmItem("warn", "tempLow", name) >> ELSE <<>>)
     \o (IF IsSome(ph) /\ Val(ph) > 850
           THEN << AlarmItem("warn", "phHigh", name) >> ELSE <<>>)
     \o (IF IsSome(ph) /\ Val(ph) < 6 * Scale
           THEN << AlarmItem("warn", "phLow", name) >> ELSE <<>>)
     \o (IF IsSome(levelPct) /\ Val(levelPct) < 15 * Scale
           THEN << AlarmItem("critical", "levelLow", name) >> ELSE <<>>)
     \o (IF IsSome(levelPct) /\ Val(levelPct) < 30 * Scale
           THEN << AlarmItem("warn", "levelWarn", name) >> ELSE <<>>)

\* The entries inspectTank pushes for one tank, in push order.
inspectTank(name, reading) ==
  LET temp == IF IsSome(reading) THEN Val(reading).temp ELSE None
      ph == IF IsSome(reading) THEN Val(reading).ph ELSE None
      level == IF IsSome(reading) THEN Val(reading).level ELSE None
      levelPct == IF IsSome(level)
                    THEN Some(IF Val(level) > 1 * Scale THEN Val(level) ELSE Val(level) * 100)
                    ELSE None
  IN (IF IsSome(temp) /\ Val(temp) > 55 * Scale
        THEN << AlarmItem("critical", "tempHigh", name) >> ELSE <<>>)
     \o (IF IsSome(temp) /\ Val(temp) < 5 * Scale
           THEN << AlarmItem("warn", "tempLow", name) >> ELSE <<>>)
     \o (IF IsSome(ph) /\ Val(ph) > 850
           THEN << AlarmItem("warn", "phHigh", name) >> ELSE <<>>)
     \o (IF IsSome(ph) /\ Val(ph) < 6 * Scale
           THEN << AlarmItem("warn", "phLow", name) >> ELSE <<>>)
     \o (IF IsSome(levelPct) /\ Val(levelPct) < 15 * Scale
           THEN << AlarmItem("critical", "levelLow", name) >> ELSE <<>>)

\* Variant of alarmList that pushes no entry for a lost connection.
alarmList_NoComm ==
  LET list == inspectTank("soak", tankReading("soak"))
                \o inspectTank("fresh", tankReading("fresh"))
                \o inspectTank("heat", tankReading("heat"))
                \o (IF flows[2] /\ ~valveFresh /\ ~valveHeat
                      THEN << AlarmItem("warn", "conflict", "") >> ELSE <<>>)
      full == IF list = <<>> THEN << AlarmItem("info", "normal", "") >> ELSE list
  IN SubSeq(full, 1, MinOf(Len(full), 10))

\* Variant of alarmList that pushes the sentinel whatever the list holds.
alarmList_AlwaysSentinel ==
  LET list == (IF ~isOnline THEN << AlarmItem("critical", "comm", "") >> ELSE <<>>)
                \o inspectTank("soak", tankReading("soak"))
                \o inspectTank("fresh", tankReading("fresh"))
                \o inspectTank("heat", tankReading("heat"))
                \o (IF flows[2] /\ ~valveFresh /\ ~valveHeat
                      THEN << AlarmItem("warn", "conflict", "") >> ELSE <<>>)
      full == list \o << AlarmItem("info", "normal", "") >>
  IN SubSeq(full, 1, MinOf(Len(full), 10))

\* useMemo: the alarm list of the current render.
alarmList ==
  LET list == (IF ~isOnline THEN << AlarmItem("critical", "comm", "") >> ELSE <<>>)
                \o inspectTank("soak", tankReading("soak"))
                \o inspectTank("fresh", tankReading("fresh"))
                \o inspectTank("heat", tankReading("heat"))
                \o (IF flows[2] /\ ~valveFresh /\ ~valveHeat
                      THEN << AlarmItem("warn", "conflict", "") >> ELSE <<>>)
      full == IF list = <<>> THEN << AlarmItem("info", "normal", "") >> ELSE list
  IN SubSeq(full, 1, MinOf(Len(full), 10))

\* The list as built, before list.slice(0, 10).
alarmListBuilt ==
  LET list == (IF ~isOnline THEN << AlarmItem("critical", "comm", "") >> ELSE <<>>)
                \o inspectTank("soak", tankReading("soak"))
                \o inspectTank("fresh", tankReading("fresh"))
                \o inspectTank("heat", tankReading("heat"))
                \o (IF flows[2] /\ ~valveFresh /\ ~valveHeat
                      THEN << AlarmItem("warn", "conflict", "") >> ELSE <<>>)
  IN IF list = <<>> THEN << AlarmItem("info", "normal", "") >> ELSE list

\* alarmList.filter((item) => item.level !== "info").length
activeAlarmCount == Len(SelectSeq(alarmList, LAMBDA item : item.level # "info"))

\* hasTankAlarm(reading): a tank reading crosses one of the thresholds.
hasTankAlarm(reading) ==
  IF ~IsSome(reading) THEN FALSE
  ELSE LET temp == Val(reading).temp
           ph == Val(reading).ph
           level == Val(reading).level
           highTemp == IsSome(temp) /\ Val(temp) > 55 * Scale
           lowTemp == IsSome(temp) /\ Val(temp) < 5 * Scale
           lowPh == IsSome(ph) /\ Val(ph) < 6 * Scale
           highPh == IsSome(ph) /\ Val(ph) > 850
           lowLevel == IsSome(level)
                         /\ (IF Val(level) > 1 * Scale THEN Val(level) ELSE Val(level) * 100)
                              < 15 * Scale
       IN highTemp \/ lowTemp \/ lowPh \/ highPh \/ lowLevel

\* const alarms = { comm, soak, fresh, heat }
alarms == [comm  |-> ~isOnline,
           soak  |-> hasTankAlarm(tankReading("soak")),
           fresh |-> hasTankAlarm(tankReading("fresh")),
           heat  |-> hasTankAlarm(tankReading("heat"))]

\* The header alarm lamp.
hasAnyAlarm == alarms.comm \/ alarms.soak \/ alarms.fresh \/ alarms.heat

\* ----------------------------------------------------------------- commands
valveConfigured ==
  IF IsSome(Val(effectiveStatus).auto) THEN Val(Val(effectiveStatus).auto).configured
  ELSE FALSE

heaterConfigured ==
  IF IsSome(Val(effectiveStatus).heater) THEN Val(Val(effectiveStatus).heater).configured
  ELSE TRUE

\* The disabled attribute of the control that starts the command of key.
Disabled(key) ==
  CASE key \in {"relay-0", "relay-1", "relay-2"} -> ~isOnline \/ busy[key]
    [] key \in {"auto-fresh", "auto-heat"} -> ~isOnline \/ ~valveConfigured \/ busy[key]
    [] key = "heater" -> ~isOnline \/ ~heaterConfigured \/ busy[key]
    [] key = "lift" -> ~isOnline

\* A click: handleRelay / handleAuto / handleLift / handleHeater up to its first await.
CommandIssue(key) ==
  /\ mounted
  /\ ~Disabled(key)
  /\ nCmds < MaxCmds
  /\ CanIssue
  /\ busy' = setBusyFlag(busy, key, TRUE)
  /\ cmds' = cmds \cup {[id |-> nCmds + 1, key |-> key, capMax |-> liftMaxMm]}
  /\ nCmds' = nCmds + 1
  /\ UNCHANGED << status, error, history, requestOk, requestFail, latestError,
                  events, liftEstimatedMm, liftMaxMm, runtime, prevStatusRef,
                  prevOnlineRef, mounted, active, timer, staleTimers, reqs,
                  nIssued, pollLog >>

\* Variant of CommandOk whose handler does not call refreshStatus.
CommandOk_NoRefresh(c) ==
  /\ c \in cmds
  /\ cmds' = cmds \ {c}
  /\ busy' = IF mounted THEN setBusyFlag(busy, c.key, FALSE) ELSE busy
  /\ UNCHANGED << status, error, history, requestOk, requestFail, latestError,
                  events, liftEstimatedMm, liftMaxMm, runtime, prevStatusRef,
                  prevOnlineRef, mounted, active, timer, staleTimers, reqs,
                  nIssued, nCmds, pollLog >>

\* The POST resolved: await refreshStatus() issues the forced status request.
CommandOk(c) ==
  /\ c \in cmds
  /\ cmds' = cmds \ {c}
  /\ reqs' = reqs \cup {Req(nIssued + 1, c.key, c.capMax)}
  /\ nIssued' = nIssued + 1
  /\ UNCHANGED << clientState, prevStatusRef, prevOnlineRef, mounted, active,
                  timer, staleTimers, nCmds, pollLog >>

\* Variant of CommandFail without the finally block.
CommandFail_KeepsBusy(c) ==
  /\ c \in cmds
  /\ cmds' = cmds \ {c}
  /\ IF mounted
       THEN /\ error' = ErrCommand
            /\ busy' = busy
            /\ events' = onlineEffect(events, FALSE)
            /\ prevOnlineRef' = FALSE
       ELSE UNCHANGED << error, busy, events, prevOnlineRef >>
  /\ UNCHANGED << status, history, requestOk, requestFail, latestError,
                  liftEstimatedMm, liftMaxMm, runtime, prevStatusRef, mounted,
                  active, timer, staleTimers, reqs, nIssued, nCmds, pollLog >>

\* The POST rejected: the catch and finally blocks of the handler.
CommandFail(c) ==
  /\ c \in cmds
  /\ cmds' = cmds \ {c}
  /\ IF mounted
       THEN /\ error' = ErrCommand
            /\ busy' = setBusyFlag(busy, c.key, FALSE)
            /\ events' = onlineEffect(events, FALSE)
            /\ prevOnlineRef' = FALSE
       ELSE UNCHANGED << error, busy, events, prevOnlineRef >>
  /\ UNCHANGED << status, history, requestOk, requestFail, latestError,
                  liftEstimatedMm, liftMaxMm, runtime, prevStatusRef, mounted,
                  active, timer, staleTimers, reqs, nIssued, nCmds, pollLog >>

\* ------------------------------------------------------------ specification
Next ==
  \/ \E r \in reqs : \E data \in Snapshots : StatusOk(r, data)
  \/ \E r \in reqs : \E message \in PollErrors : StatusFail(r, message)
  \/ LoopTimerFire
  \/ StaleTimerFire
  \/ Unmount
  \/ RuntimeTick
  \/ LiftTick
  \/ \E key \in CmdKeys : CommandIssue(key)
  \/ \E c \in cmds : CommandOk(c)
  \/ \E c \in cmds : CommandFail(c)

Spec == Init /\ [][Next]_vars

\* The code's scheduling: a pending timeout or interval callback is run by
\* the event loop; nothing makes the backend answer a request.
FairSpec ==
  /\ Spec
  /\ WF_vars(LoopTimerFire)
  /\ WF_vars(StaleTimerFire)
  /\ WF_vars(RuntimeTick)
  /\ WF_vars(LiftTick)

\* ------------------------------------------------- alarm evaluator, inputs
\* Readings on both sides of every threshold, and unknown ones.
TempInputs == {None, Some(499), Some(500), Some(5500), Some(5501)}
PhInputs == {None, Some(599), Some(600), Some(850), Some(851)}
LevelInputs == {None, Some(0), Some(1), Some(14), Some(15), Some(100), Some(101),
                Some(1499), Some(1500)}

ReadingInputs ==
  {None} \cup {Some(Reading(t, p, l)) : t \in TempInputs, p \in PhInputs, l \in LevelInputs}

\* Snapshots that vary one tank, snapshots that vary relay 2 and the valves
\* (either possibly missing), and one with every rule firing.
AlarmSnapshots ==
  {[SnapIdle EXCEPT !.tank = [DEFAULT_TANK_READINGS EXCEPT ![k] = rd]] :
     k \in TankKeys, rd \in ReadingInputs}
  \cup {[SnapIdle EXCEPT !.relays = rs, !.auto = au] :
          rs \in {<<>>, << [index |-> 2, on |-> TRUE] >>, AllOff},
          au \in {None} \cup {Some([fresh |-> f, heat |-> h, configured |-> TRUE]) :
                                f \in BOOLEAN, h \in BOOLEAN}}
  \cup {[SnapIdle EXCEPT !.relays = << [index |-> 2, on |-> TRUE] >>,
                         !.tank = [k \in TankKeys |->
                                     Some(Reading(Some(6000), Some(900), Some(10)))]]}

\* The client from construction to its first snapshot, drawn from
\* AlarmSnapshots, and on through failed polls.
AlarmNext ==
  \/ \E r \in reqs : \E data \in AlarmSnapshots : requestOk = 0 /\ StatusOk(r, data)
  \/ \E r \in reqs : \E message \in PollErrors : StatusFail(r, message)
  \/ LoopTimerFire

AlarmSpec == Init /\ [][AlarmNext]_vars

\* ------------------------------------------------- history ring, long runs
\* A client that has been polling for a long time: its first n polls all
\* succeeded, with snapshots that differ in a tank reading only.
SnapCool ==
  [SnapIdle EXCEPT !.tank = [DEFAULT_TANK_READINGS EXCEPT
     !["heat"] = Some(Reading(Some(3000), Some(650), Some(46)))]]

PrefillSnap(i) == IF i % 2 = 1 THEN SnapIdle ELSE SnapCool

Prefill(n) == [i \in 1..n |-> buildHistorySample(PrefillSnap(i))]

\* The last HISTORY_MAX elements of seq.
LastMax(seq) ==
  IF Len(seq) > HISTORY_MAX THEN SubSeq(seq, Len(seq) - HISTORY_MAX + 1, Len(seq))
  ELSE seq

PrefillLens == {HISTORY_MAX - 1, HISTORY_MAX + 1}

\* The state after those n polls, between two polls; nIssued, nCmds and
\* pollLog count from this state on.
Prefilled(n) ==
  /\ status = Some(PrefillSnap(n))
  /\ error = NoError
  /\ busy = [k \in BusyKeys |-> FALSE]
  /\ history = LastMax(Prefill(n))
  /\ requestOk = n
  /\ requestFail = 0
  /\ latestError = ""
  /\ events = << Event("info", "comm", "online") >>
  /\ liftEstimatedMm = 5
  /\ liftMaxMm = LIFT_MAX_MM_DEFAULT
  /\ runtime = [pumpRuntimeSec |-> [i \in RelayIdx |-> 0],
                pumpStarts     |-> [i \in RelayIdx |-> 0],
                valveSwitches  |-> [k \in ValveKeys |-> 0]]
  /\ prevStatusRef = Some(PrefillSnap(n))
  /\ prevOnlineRef = TRUE
  /\ mounted = TRUE
  /\ active = TRUE
  /\ timer = TRUE
  /\ staleTimers = 0
  /\ reqs = {}
  /\ cmds = {}
  /\ nIssued = 0
  /\ nCmds = 0
  /\ pollLog = <<>>

HistoryInit == Init \/ \E n \in PrefillLens : Prefilled(n)

HistoryNext ==
  \/ \E r \in reqs : \E data \in Snapshots : StatusOk(r, data)
  \/ \E r \in reqs : \E message \in PollErrors : StatusFail(r, message)
  \/ LoopTimerFire

HistorySpec == HistoryInit /\ [][HistoryNext]_vars

\* ---------------------------------------------------- lift estimator, inputs
LiftSnap(state, est, max) ==
  [SnapIdle EXCEPT !.lift = Some([state |-> state, estimated_mm |-> est, max_mm |-> max])]

\* First snapshots: the lift in each state, with and without an estimate and
\* a max, estimates outside [0, max], a max that is not > 0, and no lift block.
LiftSnapshots ==
  { LiftSnap("up", Some(0), None),
    LiftSnap("up", None, Some(3)),
    LiftSnap("down", Some(2), Some(LIFT_MAX_MM_DEFAULT)),
    LiftSnap("stop", Some(500), None),
    LiftSnap("stop", Some(0 - 5), Some(0)),
    LiftSnap("down", Some(2000), None),
    [SnapIdle EXCEPT !.lift = None] }

\* A later snapshot that lowers max_mm and carries no estimate.
SnapLowMax == LiftSnap("stop", None, Some(3))

\* The client from construction through a first snapshot drawn from
\* LiftSnapshots, lift ticks, failed polls and polls answered with SnapLowMax.
LiftNext ==
  \/ \E r \in reqs : \E data \in LiftSnapshots : requestOk = 0 /\ StatusOk(r, data)
  \/ \E r \in reqs : requestOk > 0 /\ StatusOk(r, SnapLowMax)
  \/ \E r \in reqs : \E message \in PollErrors : StatusFail(r, message)
  \/ LoopTimerFire
  \/ LiftTick

LiftSpec == Init /\ [][LiftNext]_vars

\* ------------------------------------------------- commands, concurrently
\* The client online after a first snapshot, with a relay-0 command in
\* flight; nCmds counts the commands issued from this state on.
CmdInit ==
  /\ status = Some(SnapIdle)
  /\ error = NoError
  /\ busy = [k \in BusyKeys |-> k = "relay-0"]
  /\ history = << buildHistorySample(SnapIdle) >>
  /\ requestOk = 1
  /\ requestFail = 0
  /\ latestError = ""
  /\ events = << Event("info", "comm", "online") >>
  /\ liftEstimatedMm = 5
  /\ liftMaxMm = LIFT_MAX_MM_DEFAULT
  /\ runtime = [pumpRuntimeSec |-> [i \in RelayIdx |-> 0],
                pumpStarts     |-> [i \in RelayIdx |-> 0],
                valveSwitches  |-> [k \in ValveKeys |-> 0]]
  /\ prevStatusRef = Some(SnapIdle)
  /\ prevOnlineRef = TRUE
  /\ mounted = TRUE
  /\ active = TRUE
  /\ timer = TRUE
  /\ staleTimers = 0
  /\ reqs = {}
  /\ cmds = {[id |-> 0, key |-> "relay-0", capMax |-> LIFT_MAX_MM_DEFAULT]}
  /\ nIssued = 1
  /\ nCmds = 0
  /\ pollLog = << [ok |-> TRUE, data |-> Some(SnapIdle), msg |-> ""] >>

\* Every operation of the mounted client.
CmdNext ==
  \/ \E r \in reqs : \E data \in Snapshots : StatusOk(r, data)
  \/ \E r \in reqs : \E message \in PollErrors : StatusFail(r, message)
  \/ LoopTimerFire
  \/ StaleTimerFire
  \/ RuntimeTick
  \/ LiftTick
  \/ \E key \in CmdKeys : CommandIssue(key)
  \/ \E c \in cmds : CommandOk(c)
  \/ \E c \in cmds : CommandFail(c)

CmdSpec == CmdInit /\ [][CmdNext]_vars

\* ------------------------------------------------------- history operators
Last(seq) == seq[Len(seq)]

RECURSIVE Reverse(_)
Reverse(seq) == IF seq = <<>> THEN <<>> ELSE Append(Reverse(Tail(seq)), Head(seq))

\* The step completes a status poll of the mounted client.
PollStep == Len(pollLog') = Len(pollLog) + 1
PollOkStep == PollStep /\ Last(pollLog').ok
PollFailStep == PollStep /\ ~Last(pollLog').ok

\* The snapshots of the successful polls, oldest first.
RECURSIVE OkSnaps(_)
OkSnaps(log) ==
  IF log = <<>> THEN <<>>
  ELSE IF Head(log).ok THEN <<Val(Head(log).data)>> \o OkSnaps(Tail(log))
  ELSE OkSnaps(Tail(log))

\* The current loop instance awaits its status request.
CurLoopReqs == {r \in reqs : r.origin = "loop"}

\* ------------------------------------------------------- event ring, long run
\* A client that has polled m times without a failure, the plant alternating
\* between idle and running, so that every poll after the first emits one
\* event per changed field.
EventSnap(i) == IF i % 2 = 1 THEN SnapIdle ELSE SnapRun

\* The events those m polls append, oldest first.
RECURSIVE EventsOf(_)
EventsOf(m) ==
  IF m = 1 THEN << Event("info", "comm", "online") >>
  ELSE EventsOf(m - 1) \o diffEvents(Some(EventSnap(m - 1)), EventSnap(m))

\* The runtime counters after those m polls.
RECURSIVE RuntimeOf(_)
RuntimeOf(m) ==
  IF m = 1 THEN [pumpRuntimeSec |-> [i \in RelayIdx |-> 0],
                 pumpStarts     |-> [i \in RelayIdx |-> 0],
                 valveSwitches  |-> [k \in ValveKeys |-> 0]]
  ELSE diffRuntime(RuntimeOf(m - 1), Some(EventSnap(m - 1)), EventSnap(m))

\* The newest EVENT_MAX elements of seq, newest first.
NewestMax(seq) ==
  LET r == Reverse(seq) IN SubSeq(r, 1, MinOf(Len(r), EVENT_MAX))

\* Polls after which the ring is nearly full (one event, then five per poll),
\* and after which its oldest entry has been dropped.
EventPolls == {EVENT_MAX \div 5, EVENT_MAX \div 5 + 1}

\* The client after those m >= 3 polls, between two polls: the loop was
\* restarted once, when the second poll reported the lift range.
EventClient(m) ==
  /\ status = Some(EventSnap(m))
  /\ error = NoError
  /\ busy = [k \in BusyKeys |-> FALSE]
  /\ history = [i \in 1..m |-> buildHistorySample(EventSnap(i))]
  /\ requestOk = m
  /\ requestFail = 0
  /\ latestError = ""
  /\ events = NewestMax(EventsOf(m))
  /\ liftMaxMm = Val(backendLiftMax(SnapRun))
  /\ liftEstimatedMm = MinOf(Val(backendLiftMax(SnapRun)), Val(backendLiftMm(EventSnap(m))))
  /\ runtime = RuntimeOf(m)
  /\ prevStatusRef = Some(EventSnap(m))
  /\ prevOnlineRef = TRUE
  /\ mounted = TRUE
  /\ active = TRUE
  /\ timer = TRUE
  /\ staleTimers = 0
  /\ reqs = {}
  /\ cmds = {}

\* nIssued, nCmds and pollLog count from this state on.
EventFilled(m) ==
  /\ EventClient(m)
  /\ nIssued = 0
  /\ nCmds = 0
  /\ pollLog = <<>>

EventInit == Init \/ \E m \in EventPolls : EventFilled(m)

EventNext ==
  \/ \E r \in reqs : \E data \in Snapshots : StatusOk(r, data)
  \/ \E r \in reqs : \E message \in PollErrors : StatusFail(r, message)
  \/ LoopTimerFire

EventSpec == EventInit /\ [][EventNext]_vars

\* ------------------------------------------------------------------ claims

\* C1: once a status poll has completed, the online flag is true exactly when
\* the most recently completed status poll succeeded; no other operation, in
\* particular no failed command, changes it.
C1_OnlineIsLastPollOk ==
  pollLog # <<>> => (isOnline <=> Last(pollLog).ok)

\* C2: at any time at most one status request issued by the poll loop is in
\* flight, also across a teardown and restart of the loop.
C2_PollLoopNeverOverlaps ==
  Cardinality(LoopReqs) <= 1

\* C3: a failed status poll adds exactly 1 to the failure counter, records the
\* error message, and leaves the snapshot, the diff baseline, the success
\* counter, the history ring, the runtime counters and the lift estimate and
\* max unchanged.
C3_FailedPollFrame ==
  [][PollFailStep =>
       /\ requestFail' = requestFail + 1
       /\ latestError' = Last(pollLog').msg
       /\ UNCHANGED << status, prevStatusRef, requestOk, history, runtime,
                       liftEstimatedMm, liftMaxMm >>]_vars

\* A poll has failed after a successful one changed the snapshot, the history,
\* the counters and the lift values.
C3_Witness ==
  /\ pollLog # <<>>
  /\ ~Last(pollLog).ok
  /\ requestFail >= 1
  /\ requestOk >= 2
  /\ runtime.pumpStarts[0] >= 1
  /\ liftMaxMm # LIFT_MAX_MM_DEFAULT

\* C4: while the client is mounted, whenever the loop is between two polls
\* (its last status request has completed, successfully or not), it eventually
\* issues another status request, as long as the request budget lasts.
C4_PollAlwaysRetried ==
  (mounted /\ CurLoopReqs = {} /\ CanIssue)
    ~> (CurLoopReqs # {} \/ ~mounted \/ ~CanIssue)

\* Two polls failed, the loop polled again and the client is back online.
C4_Witness ==
  /\ Len(pollLog) >= 3
  /\ ~pollLog[1].ok
  /\ ~pollLog[2].ok
  /\ Last(pollLog).ok
  /\ isOnline

\* C5: a status request that never receives a response is eventually
\* classified as a failed poll: while the client is mounted, every status
\* request in flight eventually completes.
C5_RequestTimesOut ==
  \A id \in 1..MaxPolls :
     (mounted /\ \E r \in reqs : r.id = id)
       ~> (~mounted \/ ~(\E r \in reqs : r.id = id))

\* The events a step puts on the ring, newest first, and those among them
\* that the snapshot diff emitted (the others report the online flag).
Emitted == SubSeq(events', 1, Len(events') - Len(events))
DiffEmitted == SelectSeq(Emitted, LAMBDA e : e.src # "comm")
CommEmitted == SelectSeq(Emitted, LAMBDA e : e.src = "comm")

\* The snapshot of the most recent successful poll, None when there is none.
LastOkSnap(log) == IF OkSnaps(log) = <<>> THEN None ELSE Some(Last(OkSnaps(log)))

\* C6: on every successful poll the diff compares the new snapshot with the
\* snapshot of the most recent earlier successful poll, failed polls in
\* between skipped; on the first snapshot no diff event is emitted and no
\* start or switch counter changes.
C6_DiffAgainstLastOk ==
  [][PollOkStep =>
       LET data == Val(Last(pollLog').data)
           base == LastOkSnap(pollLog)
       IN /\ DiffEmitted = Reverse(diffEvents(base, data))
          /\ runtime' = diffRuntime(runtime, base, data)
          /\ ~IsSome(base) => DiffEmitted = <<>> /\ runtime' = runtime]_vars

\* A first snapshot with relays and a valve on, then a failed poll, then a
\* successful poll with another snapshot, whose diff events are on the ring.
C6_Witness ==
  /\ Len(pollLog) = 3
  /\ pollLog[1].data = Some(SnapRun)
  /\ ~pollLog[2].ok
  /\ pollLog[3].data = Some(SnapIdle)
  /\ \E i \in DOMAIN events : events[i] = Event("info", "pump1", "off")

\* The actuator fields the diff looks at, and the value of each in a snapshot.
Fields == {"pump1", "pump2", "pump3", "valve1", "valve2", "lift", "heater"}

FieldValue(snap, f) ==
  CASE f = "pump1"  -> OnOff(getRelayOn(Some(snap), 0))
    [] f = "pump2"  -> OnOff(getRelayOn(Some(snap), 1))
    [] f = "pump3"  -> OnOff(getRelayOn(Some(snap), 2))
    [] f = "valve1" -> OnOff(getValveOn(Some(snap), "fresh"))
    [] f = "valve2" -> OnOff(getValveOn(Some(snap), "heat"))
    [] f = "lift"   -> getLiftState(Some(snap))
    [] f = "heater" -> OnOff(getHeaterOn(Some(snap)))

\* C7: a successful poll with a previous snapshot emits exactly one event for
\* each changed actuator field (warn for the lift state, info for a relay, a
\* valve or the heater) and none for an unchanged field, so the number of
\* events emitted equals the number of changed fields.
C7_OneEventPerChangedField ==
  [][PollOkStep /\ IsSome(LastOkSnap(pollLog)) =>
       LET data == Val(Last(pollLog').data)
           base == Val(LastOkSnap(pollLog))
           changed == {f \in Fields : FieldValue(base, f) # FieldValue(data, f)}
           about(f) == SelectSeq(DiffEmitted, LAMBDA e : e.src = f)
       IN /\ \A f \in Fields :
               IF f \in changed
                 THEN about(f) = << Event(IF f = "lift" THEN "warn" ELSE "info",
                                          f, FieldValue(data, f)) >>
                 ELSE about(f) = <<>>
          /\ \A i \in DOMAIN DiffEmitted : DiffEmitted[i].src \in Fields
          /\ Len(DiffEmitted) = Cardinality(changed)]_vars

\* A poll changed two relays, a valve, the lift state and the heater and left
\* pump2 and valve2 as they were: the ring holds its five events.
C7_Witness ==
  /\ Len(OkSnaps(pollLog)) = 2
  /\ OkSnaps(pollLog) = << SnapIdle, SnapRun >>
  /\ Len(SelectSeq(events, LAMBDA e : e.src # "comm")) = 5
  /\ \E i \in DOMAIN events : events[i] = Event("warn", "lift", "up")
  /\ \E i \in DOMAIN events : events[i] = Event("info", "pump3", "on")

\* Off -> on flips of relay i, and flips of valve k, between consecutive
\* successful snapshots.
Rises(snaps, i) ==
  Cardinality({n \in 1..(Len(snaps) - 1) :
     ~getRelayOn(Some(snaps[n]), i) /\ getRelayOn(Some(snaps[n + 1]), i)})

Flips(snaps, k) ==
  Cardinality({n \in 1..(Len(snaps) - 1) :
     getValveOn(Some(snaps[n]), k) # getValveOn(Some(snaps[n + 1]), k)})

\* C8: pumpStarts[i] is the number of off -> on flips of relay i between
\* consecutive successful snapshots, valveSwitches[k] the number of flips of
\* valve k in either direction; neither counter ever decreases, and they
\* change only on a successful poll.
C8_StartAndSwitchCounters ==
  /\ [](/\ \A i \in RelayIdx :
             runtime.pumpStarts[i] = Rises(OkSnaps(pollLog), i)
        /\ \A k \in ValveKeys :
             runtime.valveSwitches[k] = Flips(OkSnaps(pollLog), k))
  /\ [][/\ \A i \in RelayIdx : runtime'.pumpStarts[i] >= runtime.pumpStarts[i]
        /\ \A k \in ValveKeys : runtime'.valveSwitches[k] >= runtime.valveSwitches[k]
        /\ (\/ runtime'.pumpStarts # runtime.pumpStarts
            \/ runtime'.valveSwitches # runtime.valveSwitches) => PollOkStep]_vars

\* Relay 0 went on once and off again, the fresh valve with it.
C8_Witness ==
  /\ runtime.pumpStarts[0] = 1
  /\ runtime.valveSwitches["fresh"] = 2
  /\ ~getRelayOn(status, 0)
  /\ Len(OkSnaps(pollLog)) >= 3

\* C9: every transition of the online flag emits exactly one event, critical
\* on a transition to offline and info on a transition back online; no such
\* event is emitted while the flag is unchanged.
C9_OnlineTransitionEvents ==
  [][/\ isOnline' # isOnline =>
          CommEmitted = << Event(IF isOnline' THEN "info" ELSE "critical", "comm",
                                 IF isOnline' THEN "online" ELSE "offline") >>
     /\ isOnline' = isOnline => CommEmitted = <<>>]_vars

\* The client went offline and came back online: both events are on the ring.
C9_Witness ==
  /\ isOnline
  /\ \E i, j \in DOMAIN events :
        /\ i < j
        /\ events[i] = Event("info", "comm", "online")
        /\ events[j] = Event("critical", "comm", "offline")

\* C10: a tick of the runtime ticker adds exactly 1 to pumpRuntimeSec[i] for
\* every relay i that the latest snapshot reports on while the client is
\* online, leaves every other relay's runtime unchanged and changes nothing
\* else; the ticker runs whatever the state of the poll loop.
C10_RuntimeTick ==
  /\ [][RuntimeTick =>
          /\ \A i \in RelayIdx :
                runtime'.pumpRuntimeSec[i] = runtime.pumpRuntimeSec[i]
                   + (IF isOnline /\ getRelayOn(status, i) THEN 1 ELSE 0)
          /\ runtime'.pumpStarts = runtime.pumpStarts
          /\ runtime'.valveSwitches = runtime.valveSwitches
          /\ UNCHANGED << status, error, busy, history, requestOk, requestFail,
                          latestError, events, liftEstimatedMm, liftMaxMm,
                          prevStatusRef, prevOnlineRef, timer, reqs, cmds >>]_vars
  /\ [](mounted /\ CanTick => ENABLED RuntimeTick)

\* The ticker ran while relays 0 and 2 were on and relay 1 was off.
C10_Witness ==
  /\ runtime.pumpRuntimeSec[0] = 1
  /\ runtime.pumpRuntimeSec[1] = 0
  /\ runtime.pumpRuntimeSec[2] = 1

\* The entries of the alarm list about tank k, and the rules they name.
TankEntries(k) == SelectSeq(alarmList, LAMBDA item : item.tank = k)
TankRules(k) == {TankEntries(k)[i].rule : i \in DOMAIN TankEntries(k)}
HasEntry(rule) == \E i \in DOMAIN alarmList : alarmList[i].rule = rule

\* C11: whenever the client is offline, the alarm list contains the critical
\* communication-lost entry and it is the first element, whatever the readings
\* of the last snapshot.
C11_CommLostFirst ==
  ~isOnline =>
     /\ alarmList # <<>>
     /\ alarmList[1] = AlarmItem("critical", "comm", "")

\* The client is offline and its last snapshot has a tank over a threshold.
C11_Witness ==
  /\ ~isOnline
  /\ IsSome(status)
  /\ inspectTank("soak", Val(status).tank["soak"]) # <<>>
  /\ alarmList[1].rule = "comm"

\* C12: an unknown field never triggers an alarm rule: a rule about a tank
\* fires only if the field it reads is known, so a tank whose temp, ph and
\* level are all unknown has no entry; and the conflict rule fires only if the
\* snapshot reports relay 2 and both valves.
C12_UnknownNeverAlarms ==
  isOnline =>
     /\ \A k \in TankKeys :
          LET rd == Val(status).tank[k]
              known(f) == IsSome(rd) /\ IsSome(Val(rd)[f])
          IN /\ TankRules(k) \cap {"tempHigh", "tempLow"} # {} => known("temp")
             /\ TankRules(k) \cap {"phHigh", "phLow"} # {} => known("ph")
             /\ "levelLow" \in TankRules(k) => known("level")
     /\ HasEntry("conflict") =>
          /\ IsSome(Val(status).auto)
          /\ \E i \in DOMAIN Val(status).relays : Val(status).relays[i].index = 2

\* The percentage the low-level rule compares: a level > 1 is a percentage,
\* any other level a fraction.
LevelPct(l) == IF l > 1 * Scale THEN l ELSE l * 100

\* The rules that fire for a reading, by the rule table.
ExpectedRules(rd) ==
  IF ~IsSome(rd) THEN {}
  ELSE LET t == Val(rd).temp
           p == Val(rd).ph
           l == Val(rd).level
       IN {r \in {"tempHigh"} : IsSome(t) /\ Val(t) > 5500}
          \cup {r \in {"tempLow"} : IsSome(t) /\ Val(t) < 500}
          \cup {r \in {"phHigh"} : IsSome(p) /\ Val(p) > 850}
          \cup {r \in {"phLow"} : IsSome(p) /\ Val(p) < 600}
          \cup {r \in {"levelLow"} : IsSome(l) /\ LevelPct(Val(l)) < 1500}

RuleLevel(rule) ==
  IF rule \in {"tempHigh", "levelLow"} THEN "critical" ELSE "warn"

\* C13: while online, the entries about each tank are exactly those of the
\* rule table, each once and with its level (critical for high temperature
\* and low level, warn for low temperature and pH high or low), comparisons
\* strict; and the list has one warn conflict entry iff relay 2 is on and both
\* valves are off, none otherwise.
C13_TankRuleSet ==
  isOnline =>
     /\ \A k \in TankKeys :
          /\ TankRules(k) = ExpectedRules(Val(status).tank[k])
          /\ Len(TankEntries(k)) = Cardinality(TankRules(k))
          /\ \A i \in DOMAIN TankEntries(k) :
                TankEntries(k)[i].level = RuleLevel(TankEntries(k)[i].rule)
     /\ Len(SelectSeq(alarmList, LAMBDA item : item.rule = "conflict"))
          = (IF /\ getRelayOn(status, 2)
                /\ ~getValveOn(status, "fresh")
                /\ ~getValveOn(status, "heat") THEN 1 ELSE 0)
     /\ \A i \in DOMAIN alarmList :
          alarmList[i].rule = "conflict" => alarmList[i].level = "warn"

\* Online with a tank exactly on the temperature and pH boundaries and a
\* level of 1.01 %: only the low-level rule fires for it.
C13_Witness ==
  /\ isOnline
  /\ Val(status).tank["fresh"] = Some(Reading(Some(5500), Some(600), Some(101)))
  /\ TankRules("fresh") = {"levelLow"}

\* C14: the alarm list is never empty and never longer than 10; it holds the
\* info sentinel exactly when it holds no other entry, and then the sentinel
\* is its only entry; activeAlarmCount is the number of its non-info entries.
C14_AlarmListShape ==
  /\ Len(alarmList) >= 1
  /\ Len(alarmList) <= 10
  /\ HasEntry("normal") <=> ~(\E i \in DOMAIN alarmList : alarmList[i].rule # "normal")
  /\ HasEntry("normal") => alarmList = << AlarmItem("info", "normal", "") >>
  /\ activeAlarmCount
       = Cardinality({i \in DOMAIN alarmList : alarmList[i].level # "info"})

\* Every rule fires at once: nine tank entries and the conflict entry.
C14_Witness ==
  /\ isOnline
  /\ Len(alarmList) = 10
  /\ activeAlarmCount = 10
  /\ HasEntry("conflict")

\* The samples of all successful polls so far, oldest first: those of the
\* polls before the log begins, then those of the log.
SamplesSoFar ==
  LET snaps == OkSnaps(pollLog)
  IN Prefill(requestOk - Len(snaps))
       \o [i \in 1..Len(snaps) |-> buildHistorySample(snaps[i])]

\* C15: after n successful polls the history ring holds exactly the samples of
\* the most recent min(n, HISTORY_MAX) of them, in arrival order, so its length
\* never exceeds HISTORY_MAX; a successful poll appends one sample, evicting
\* only the oldest one when the ring is full, and a failed poll appends none.
C15_HistoryRing ==
  /\ [](/\ history = LastMax(SamplesSoFar)
        /\ Len(history) = MinOf(requestOk, HISTORY_MAX)
        /\ Len(history) <= HISTORY_MAX)
  /\ [][/\ PollOkStep =>
             /\ Last(history') = buildHistorySample(Val(Last(pollLog').data))
             /\ IF Len(history) < HISTORY_MAX
                  THEN SubSeq(history', 1, Len(history') - 1) = history
                  ELSE SubSeq(history', 1, Len(history') - 1) = Tail(history)
        /\ PollFailStep => history' = history]_vars

\* A full ring has taken two more samples, with a failed poll in between.
C15_Witness ==
  /\ requestOk > HISTORY_MAX + 1
  /\ Len(OkSnaps(pollLog)) >= 2
  /\ requestFail >= 1
  /\ Len(history) = HISTORY_MAX
  /\ Last(history) = buildHistorySample(SnapRun)

\* C16: normalizing a level twice gives what normalizing it once gives, so the
\* level the history chart reads back from a stored sample is the percentage
\* the recorder stored.
C16_NormalizeIdempotent ==
  \A i \in DOMAIN history : \A k \in TankKeys :
     readMetric(history[i], k, "level") = history[i][k].level

\* C17: a lift tick leaves the estimate unchanged when the lift state is stop,
\* makes it min(max_mm, estimate + 1) when up and max(0, estimate - 1) when
\* down, and changes nothing else; so 100 ticks in state up from 0 with
\* max_mm 1000 give 100.
C17_LiftTickStep ==
  [][LiftTick =>
       /\ liftEstimatedMm' =
            CASE liftState = "stop" -> liftEstimatedMm
              [] liftState = "up"   -> MinOf(liftMaxMm, liftEstimatedMm + 1)
              [] liftState = "down" -> MaxOf(0, liftEstimatedMm - 1)
       /\ UNCHANGED << status, error, liftMaxMm, runtime, history, events,
                       prevStatusRef, reqs, cmds, timer >>]_vars

\* One poll reported the lift going up from 0 with no max_mm; the ticker has
\* brought the estimate to 100 with the max at 1000.
C17_Witness ==
  /\ Len(pollLog) = 1
  /\ pollLog[1].data = Some(LiftSnap("up", Some(0), None))
  /\ liftMaxMm = 1000
  /\ liftEstimatedMm = 100

\* C18: a successful poll with a max_mm > 0 makes it the tracked max; with a
\* finite estimated_mm it sets the estimate to that value clamped to
\* [0, effective max], the effective max being the snapshot's max_mm when it is
\* > 0 and the tracked max otherwise; with no estimated_mm it leaves the
\* estimate unchanged.
C18_LiftReconcile ==
  [][PollOkStep =>
       LET data == Val(Last(pollLog').data)
           bMax == backendLiftMax(data)
           bMm == backendLiftMm(data)
           valid == IsSome(bMax) /\ Val(bMax) > 0
           effectiveMax == IF valid THEN Val(bMax) ELSE liftMaxMm
       IN /\ liftMaxMm' = (IF valid THEN Val(bMax) ELSE liftMaxMm)
          /\ liftEstimatedMm' =
               (IF IsSome(bMm) THEN MaxOf(0, MinOf(effectiveMax, Val(bMm)))
                ELSE liftEstimatedMm)]_vars

\* C19: the lift estimate lies in [0, max_mm] for the tracked max_mm, and the
\* displayed percent in [0, 100].
C19_LiftEstimateInRange ==
  /\ 0 <= liftEstimatedMm
  /\ liftEstimatedMm <= liftMaxMm
  /\ 0 <= liftEstimatedPercent
  /\ liftEstimatedPercent <= 100

\* A command of key is in flight: its POST, or the status request it forced.
CmdInFlight(key) ==
  \/ \E c \in cmds : c.key = key
  \/ \E r \in reqs : r.origin = key

\* busy[key], false for a key that was never set.
BusyFlag(key) == key \in DOMAIN busy /\ busy[key]

\* C20: while the client is mounted and a command of an action is in flight,
\* the busy flag of its key is true and its control is disabled.
C20_BusyWhileInFlight ==
  mounted =>
     \A key \in CmdKeys :
        CmdInFlight(key) => BusyFlag(key) /\ Disabled(key)

\* C21: the busy flag of an action key is true only while a command of that
\* key, or the status poll it forced, is pending; when a command is rejected,
\* and when the forced poll of a command completes, the flag of its key is
\* false afterwards.
C21_BusyReleased ==
  /\ [](\A key \in BusyKeys : busy[key] => CmdInFlight(key))
  /\ [][\A c \in cmds : CommandFail(c) => ~BusyFlag(c.key)']_vars
  /\ [][\A r \in reqs :
          (r.origin \in CmdKeys /\ r \notin reqs') => ~BusyFlag(r.origin)']_vars

\* The relay-0 command, the only one issued, was rejected and its flag is
\* released.
C21_Witness ==
  /\ nCmds = 0
  /\ cmds = {}
  /\ error = ErrCommand
  /\ ~busy["relay-0"]

\* C22: a command whose POST resolves is followed at once by exactly one
\* status request, forced by it, and the busy flag of its key stays true until
\* that request has completed; a command whose POST is rejected forces no
\* status request; a status request is forced only by a resolving POST, and a
\* command is sent only by a user action, once.
C22_ForcedPollAfterSuccess ==
  /\ [](\A r \in reqs : r.origin \in BusyKeys => busy[r.origin])
  /\ [][\A c \in cmds : CommandOk(c) =>
          /\ \E r \in reqs' : /\ r \notin reqs
                              /\ reqs' = reqs \cup {r}
                              /\ r.origin = c.key
          /\ busy' = busy]_vars
  /\ [][\A c \in cmds : CommandFail(c) =>
          /\ reqs' = reqs
          /\ nIssued' = nIssued
          /\ cmds' = cmds \ {c}
          /\ nCmds' = nCmds]_vars
  /\ [][/\ \A r \in reqs' \ reqs :
             r.origin \in CmdKeys => \E c \in cmds \ cmds' : c.key = r.origin
        /\ \A c \in cmds' \ cmds :
             /\ nCmds' = nCmds + 1
             /\ cmds' = cmds \cup {c}
             /\ ~Disabled(c.key)]_vars

\* The relay-0 POST has resolved: its forced status request is in flight and
\* the flag of relay-0 is still set.
C22_Witness ==
  /\ cmds = {}
  /\ nCmds = 0
  /\ \E r \in reqs : r.origin = "relay-0"
  /\ busy["relay-0"]

\* The control of key needs a configured device.
Configured(key) == IF key = "heater" THEN heaterConfigured ELSE TRUE

\* C23: a step changes the busy flag of a key only if it starts or completes
\* a command of that key; and a command in flight delays nothing else: while
\* the client is online, a command of any key that has none in flight can be
\* issued, the loop's pending timeout can fire, and both tickers can tick.
C23_ActionsIndependent ==
  /\ [][\A k \in BusyKeys :
          busy'[k] # busy[k] =>
             \/ \E c \in cmds' \ cmds : c.key = k
             \/ \E c \in cmds \ cmds' : c.key = k
             \/ \E r \in reqs \ reqs' : r.origin = k]_vars
  /\ [](\A key \in CmdKeys :
          (/\ mounted /\ isOnline /\ Configured(key) /\ ~CmdInFlight(key)
           /\ nCmds < MaxCmds /\ CanIssue)
             => ENABLED CommandIssue(key))
  /\ [](timer /\ active /\ CanIssue => ENABLED LoopTimerFire)
  /\ [](mounted /\ CanTick => ENABLED RuntimeTick)
  /\ [](mounted => ENABLED LiftTick)

\* The relay-0 command has completed while a heater command, issued while it
\* was in flight, is still pending with its flag set.
C23_Witness ==
  /\ ~CmdInFlight("relay-0")
  /\ ~busy["relay-0"]
  /\ \E c \in cmds : c.key = "heater"
  /\ busy["heater"]
  /\ requestOk = 1
  /\ requestFail = 0

\* The status requests a step issues.
NewReqs == {r \in reqs' : r.id > nIssued}

\* C24: a loop instance that was torn down issues no further status request:
\* the timeout it set after teardown fires without issuing one, a step issues
\* a loop request only for the live instance of a mounted client, and after
\* unmount no loop instance is live and no timeout of the live one is pending.
C24_NoPollAfterTeardown ==
  /\ [][StaleTimerFire => NewReqs = {} /\ reqs' = reqs /\ nIssued' = nIssued]_vars
  /\ [][\A r \in NewReqs :
          r.origin \notin CmdKeys => r.origin = "loop" /\ active' /\ mounted']_vars
  /\ [](~mounted => ~active /\ ~timer)

\* The client was unmounted while a loop request was in flight; the request
\* has completed and the timeout set after it is pending.
C24_Witness ==
  /\ ~mounted
  /\ staleTimers >= 1
  /\ LoopReqs = {}
  /\ nIssued = 1

\* C25: in every state after teardown no timeout of the poll loop is pending,
\* no step after teardown schedules one, the tickers do not run and no client
\* state is changed, also when a status request is in flight at teardown.
C25_TeardownCancelsTimers ==
  /\ [](~mounted => ~timer /\ staleTimers = 0)
  /\ [][~mounted => staleTimers' <= staleTimers /\ ~timer']_vars
  /\ [][~mounted => ~RuntimeTick /\ ~LiftTick]_vars
  /\ [][~mounted => UNCHANGED clientState]_vars

\* The events a step appends, oldest first: those of the snapshot diff, then
\* the online-transition event.
StepEvents ==
  (IF PollOkStep THEN diffEvents(prevStatusRef, Val(Last(pollLog').data)) ELSE <<>>)
    \o (IF prevOnlineRef' # prevOnlineRef
          THEN << Event(IF prevOnlineRef' THEN "info" ELSE "critical", "comm",
                        IF prevOnlineRef' THEN "online" ELSE "offline") >>
          ELSE <<>>)

\* C26: the event list never holds more than EVENT_MAX entries, and a step
\* that appends events puts them at the head, newest first, keeps the entries
\* it retains in their order and drops only the oldest ones beyond EVENT_MAX.
C26_EventRing ==
  /\ [](Len(events) <= EVENT_MAX)
  /\ [][LET all == Reverse(StepEvents) \o events
        IN events' = SubSeq(all, 1, MinOf(Len(all), EVENT_MAX))]_vars

\* A single poll appended five events to a list of EVENT_MAX - 4: the list is
\* full and its oldest entry, the first online event, has been dropped.
C26_Witness ==
  /\ Len(pollLog) = 1
  /\ Last(pollLog).ok
  /\ requestOk = EVENT_MAX \div 5 + 1
  /\ Len(events) = EVENT_MAX
  /\ events[1].src = "heater"
  /\ events[EVENT_MAX].src # "comm"

\* The status requests whose response a step handles.
Completed == {r \in reqs : \A q \in reqs' : q.id # r.id}

\* C27: snapshots are applied in request order: as long as no poll has failed
\* (so that every response handled so far was applied), when the response to
\* a status request is applied as the snapshot, every status request issued
\* after it is still in flight.
C27_SnapshotsInRequestOrder ==
  [][PollOkStep /\ requestFail = 0 =>
       \A r \in Completed :
          \A id \in (r.id + 1)..nIssued : \E q \in reqs : q.id = id]_vars

\* C28: the header alarm lamp is on exactly when the alarm list holds an
\* entry that is not informational.
C28_LampAgreesWithPanel == hasAnyAlarm <=> activeAlarmCount > 0

\* C29: while the client is offline the derived state is that of
\* DEFAULT_STATUS: the lift state is stop and a lift tick leaves the estimate
\* alone, a runtime tick adds nothing, and the alarm list is the single
\* communication-lost entry; a successful poll makes its snapshot the
\* effective one again.
C29_OfflineUsesDefaults ==
  /\ [](~isOnline =>
          /\ effectiveStatus = Some(DEFAULT_STATUS)
          /\ liftState = "stop"
          /\ \A i \in RelayIdx : ~flows[i]
          /\ alarmList = << AlarmItem("critical", "comm", "") >>)
  /\ [][~isOnline /\ LiftTick => liftEstimatedMm' = liftEstimatedMm]_vars
  /\ [][~isOnline /\ RuntimeTick => runtime' = runtime]_vars
  /\ [][PollOkStep => isOnline' /\ effectiveStatus' = Last(pollLog').data]_vars

\* Offline after a failed poll, the last-known snapshot reporting the lift
\* going up below its range and two relays on.
C29_Witness ==
  /\ ~isOnline
  /\ requestFail >= 1
  /\ status = Some(SnapRun)
  /\ liftEstimatedMm < liftMaxMm
  /\ \A i \in RelayIdx : runtime.pumpRuntimeSec[i] = 0

\* C30: the list built before truncation never holds more than 10 entries, so
\* the truncation drops none: a tank contributes at most 3 entries, never both
\* temperature rules nor both pH rules, and offline the list is the
\* communication-lost entry alone.
C30_CapDropsNothing ==
  /\ Len(alarmListBuilt) <= 10
  /\ alarmList = alarmListBuilt
  /\ \A k \in TankKeys :
        LET fired == inspectTank(k, tankReading(k))
            rules == {fired[i].rule : i \in DOMAIN fired}
        IN /\ Len(fired) <= 3
           /\ ~({"tempHigh", "tempLow"} \subseteq rules)
           /\ ~({"phHigh", "phLow"} \subseteq rules)
  /\ ~isOnline => alarmListBuilt = << AlarmItem("critical", "comm", "") >>

\* Online with three entries for every tank and the conflict entry: the list
\* as built has exactly 10 entries.
C30_Witness ==
  /\ isOnline
  /\ Len(alarmListBuilt) = 10
  /\ \A k \in TankKeys : Len(inspectTank(k, tankReading(k))) = 3
  /\ alarmListBuilt[10].rule = "conflict"
====
